---- MODULE Spec2Model ----
(***************************************************************************)
(* Password Strength Checker CLI (password_checker.py).                    *)
(*                                                                         *)
(* Strings are sequences of Unicode code points.  Floating-point entropy   *)
(* values are carried as integers in micro-bits (bits * 10^6); for every   *)
(* password length up to 40 the comparisons against 25, 35 and 50 bits and *)
(* the rounding to 2 decimals agree with the IEEE-754 doubles computed by  *)
(* CPython (log2 of 32 is exactly 5.0, every other alphabet size has an    *)
(* irrational log2, so no product lands on a threshold).                   *)
(***************************************************************************)
EXTENDS Integers, Sequences, FiniteSets, TLC

VARIABLES criteria, args, password, pc, ret, pending, reads, evals, printed

vars == <<criteria, args, password, pc, ret, pending, reads, evals, printed>>

(***************************************************************************)
(* Bounds of the model.                                                    *)
(***************************************************************************)
\* a password handed to the core is a concatenation of at most MaxPieces pieces
MaxPieces == 3
\* the interactive loop and a password file deliver at most MaxReads lines
MaxReads == 3

(***************************************************************************)
(* Characters and string literals.                                         *)
(***************************************************************************)
s_123456 == <<49, 50, 51, 52, 53, 54>>
s_abcdef == <<97, 98, 99, 100, 101, 102>>
s_qwerty == <<113, 119, 101, 114, 116, 121>>
s_password == <<112, 97, 115, 115, 119, 111, 114, 100>>
s_admin == <<97, 100, 109, 105, 110>>
s_letmein == <<108, 101, 116, 109, 101, 105, 110>>
s_asdfgh == <<97, 115, 100, 102, 103, 104>>
s_zxcvbn == <<122, 120, 99, 118, 98, 110>>
s_1qaz2wsx == <<49, 113, 97, 122, 50, 119, 115, 120>>
s_quit == <<113, 117, 105, 116>>

\* the characters of the class [!@#$%^&*(),.?":{}|<>]
SpecialChars == {33, 34, 35, 36, 37, 38, 40, 41, 42, 44, 46, 58, 60, 62, 63, 64, 94, 123, 124, 125}

\* \d on a str pattern matches every Unicode decimal digit (category Nd):
\* ASCII 0-9 and, of the blocks the inputs here draw from, ARABIC-INDIC 0-9
UnicodeDigits == (48..57) \cup (1632..1641)

\* str.strip() removes leading and trailing whitespace (the code points below
\* U+0100 that str.isspace() accepts)
Whitespace == {9, 10, 11, 12, 13, 28, 29, 30, 31, 32, 133, 160}

\* str.lower() of one character: ASCII and Latin-1 capitals map to their
\* small letters, KELVIN SIGN maps to k; every other character used is fixed
lower_char(c) ==
    IF c \in 65..90 THEN c + 32
    ELSE IF c \in (192..222) \ {215} THEN c + 32
    ELSE IF c = 8490 THEN 107
    ELSE c

RECURSIVE lower(_)
lower(s) == IF s = <<>> THEN <<>> ELSE <<lower_char(Head(s))>> \o lower(Tail(s))

RECURSIVE lstrip(_)
lstrip(s) == IF s # <<>> /\ Head(s) \in Whitespace THEN lstrip(Tail(s)) ELSE s

RECURSIVE rstrip(_)
rstrip(s) ==
    IF s # <<>> /\ s[Len(s)] \in Whitespace THEN rstrip(SubSeq(s, 1, Len(s) - 1)) ELSE s

strip(s) == rstrip(lstrip(s))

\* Python's  sub in s  on strings
contains(s, sub) ==
    \E i \in 0..(Len(s) - Len(sub)) : \A j \in 1..Len(sub) : s[i + j] = sub[j]

\* '*' * n
RECURSIVE repeat_star(_)
repeat_star(n) == IF n <= 0 THEN <<>> ELSE <<42>> \o repeat_star(n - 1)

(***************************************************************************)
(* re.search(pattern, string) for the five patterns the program uses.      *)
(* '.' matches any character except a newline (no re.DOTALL).              *)
(***************************************************************************)
RE_LENGTH == ".{8,}"
RE_UPPER == "[A-Z]"
RE_LOWER == "[a-z]"
RE_DIGIT == "\\d"
RE_SPECIAL == "[!@#$%^&*(),.?\":{}|<>]"
RE_REPEAT == "(.)\\1{2,}"

re_search(pattern, s) ==
    CASE pattern = RE_LENGTH ->
            \E i \in 0..(Len(s) - 8) : \A j \in 1..8 : s[i + j] # 10
      [] pattern = RE_UPPER -> \E i \in 1..Len(s) : s[i] \in 65..90
      [] pattern = RE_LOWER -> \E i \in 1..Len(s) : s[i] \in 97..122
      [] pattern = RE_DIGIT -> \E i \in 1..Len(s) : s[i] \in UnicodeDigits
      [] pattern = RE_SPECIAL -> \E i \in 1..Len(s) : s[i] \in SpecialChars
      [] pattern = RE_REPEAT ->
            \E i \in 1..(Len(s) - 2) : s[i] # 10 /\ s[i + 1] = s[i] /\ s[i + 2] = s[i]

(***************************************************************************)
(* PasswordStrengthChecker.__init__: the criteria table, in insertion      *)
(* order.                                                                  *)
(***************************************************************************)
PasswordStrengthChecker_init ==
    << [name |-> "length", regex |-> RE_LENGTH, weight |-> 2,
        description |-> "At least 8 characters"],
       [name |-> "uppercase", regex |-> RE_UPPER, weight |-> 2,
        description |-> "Contains uppercase letters"],
       [name |-> "lowercase", regex |-> RE_LOWER, weight |-> 2,
        description |-> "Contains lowercase letters"],
       [name |-> "digits", regex |-> RE_DIGIT, weight |-> 2,
        description |-> "Contains numbers"],
       [name |-> "special", regex |-> RE_SPECIAL, weight |-> 2,
        description |-> "Contains special characters"] >>

\* self.criteria[name]
rule_of(self, name) == self[CHOOSE i \in 1..Len(self) : self[i].name = name]

(***************************************************************************)
(* check_criteria: one (name, passed) item per rule, in the table's order. *)
(***************************************************************************)
check_criteria(self, pw) ==
    [i \in 1..Len(self) |-> [name |-> self[i].name, passed |-> re_search(self[i].regex, pw)]]

(***************************************************************************)
(* calculate_entropy, in micro-bits.                                       *)
(***************************************************************************)
\* floor(math.log2(n) * 10^6) for the alphabet sizes the program can form
log2_micro(n) ==
    CASE n = 10 -> 3321928
      [] n = 26 -> 4700439
      [] n = 32 -> 5000000
      [] n = 36 -> 5169925
      [] n = 42 -> 5392317
      [] n = 52 -> 5700439
      [] n = 58 -> 5857980
      [] n = 62 -> 5954196
      [] n = 68 -> 6087462
      [] n = 84 -> 6392317
      [] n = 94 -> 6554588

char_sets == [lowercase |-> 26, uppercase |-> 26, digits |-> 10, special |-> 32]

\* calculate_entropy with the four class tests chained by elif: only the first
\* class found is counted
calculate_entropy_first_class(self, pw) ==
    IF pw = <<>> THEN 0
    ELSE
        LET charset_size ==
                IF re_search(RE_LOWER, pw) THEN char_sets.lowercase
                ELSE IF re_search(RE_UPPER, pw) THEN char_sets.uppercase
                ELSE IF re_search(RE_DIGIT, pw) THEN char_sets.digits
                ELSE IF re_search(RE_SPECIAL, pw) THEN char_sets.special
                ELSE 0
        IN IF charset_size > 0 THEN Len(pw) * log2_micro(charset_size) ELSE 0

calculate_entropy(self, pw) ==
    IF pw = <<>> THEN 0
    ELSE
        LET c1 == IF re_search(RE_LOWER, pw) THEN char_sets.lowercase ELSE 0
            c2 == c1 + (IF re_search(RE_UPPER, pw) THEN char_sets.uppercase ELSE 0)
            c3 == c2 + (IF re_search(RE_DIGIT, pw) THEN char_sets.digits ELSE 0)
            charset_size == c3 + (IF re_search(RE_SPECIAL, pw) THEN char_sets.special ELSE 0)
        IN IF charset_size > 0 THEN Len(pw) * log2_micro(charset_size) ELSE 0

\* round(entropy, 2), still in micro-bits
round2(e) == ((e + 5000) \div 10000) * 10000

(***************************************************************************)
(* check_common_patterns.                                                  *)
(***************************************************************************)
sequences == <<s_123456, s_abcdef, s_qwerty, s_password, s_admin, s_letmein>>

keyboard_patterns == <<s_qwerty, s_asdfgh, s_zxcvbn, s_1qaz2wsx>>

MSG_SEQUENCE == "Contains common sequence: "
MSG_REPEATED == "Contains repeated characters"
MSG_KEYBOARD == "Contains keyboard pattern: "

\* the messages appended by  for seq in sequences  from index i on
RECURSIVE sequence_warnings(_, _)
sequence_warnings(pw, i) ==
    IF i > Len(sequences) THEN <<>>
    ELSE (IF contains(lower(pw), lower(sequences[i]))
          THEN << [msg |-> MSG_SEQUENCE, arg |-> sequences[i]] >>
          ELSE <<>>) \o sequence_warnings(pw, i + 1)

repeated_warning(pw) ==
    IF re_search(RE_REPEAT, pw) THEN << [msg |-> MSG_REPEATED, arg |-> <<>>] >> ELSE <<>>

\* the messages appended by  for pattern in keyboard_patterns  from index i on
RECURSIVE keyboard_warnings(_, _)
keyboard_warnings(pw, i) ==
    IF i > Len(keyboard_patterns) THEN <<>>
    ELSE (IF contains(lower(pw), keyboard_patterns[i])
          THEN << [msg |-> MSG_KEYBOARD, arg |-> keyboard_patterns[i]] >>
          ELSE <<>>) \o keyboard_warnings(pw, i + 1)

\* check_common_patterns with the repeated-characters test moved after the
\* keyboard loop
check_common_patterns_repeated_last(self, pw) ==
    sequence_warnings(pw, 1) \o keyboard_warnings(pw, 1) \o repeated_warning(pw)

check_common_patterns(self, pw) ==
    sequence_warnings(pw, 1) \o repeated_warning(pw) \o keyboard_warnings(pw, 1)

(***************************************************************************)
(* evaluate_strength.                                                      *)
(***************************************************************************)
\* score_of without the  if passed  filter
RECURSIVE score_of_unfiltered(_, _, _)
score_of_unfiltered(self, criteria_results, i) ==
    IF i > Len(criteria_results) THEN 0
    ELSE rule_of(self, criteria_results[i].name).weight
         + score_of_unfiltered(self, criteria_results, i + 1)

\* sum(self.criteria[name]['weight'] for name, passed in criteria_results.items() if passed)
RECURSIVE score_of(_, _, _)
score_of(self, criteria_results, i) ==
    IF i > Len(criteria_results) THEN 0
    ELSE (IF criteria_results[i].passed
          THEN rule_of(self, criteria_results[i].name).weight ELSE 0)
         + score_of(self, criteria_results, i + 1)

\* sum(rule['weight'] for rule in self.criteria.values())
RECURSIVE max_score_of(_, _)
max_score_of(self, i) ==
    IF i > Len(self) THEN 0 ELSE self[i].weight + max_score_of(self, i + 1)

\* (score / max_score) * 100: exact in double arithmetic for every score the
\* table can give (0.0, 20.0, 40.0, 60.0, 80.0, 100.0)
percentage_of(score, max_score) == (score * 100) \div max_score

GREEN == "\\033[92m"
BLUE == "\\033[94m"
YELLOW == "\\033[93m"
RED == "\\033[91m"

\* the if/elif chain with  >  in place of  >=  on the percentage
strength_level_strict(percentage, entropy, common_patterns) ==
    IF percentage > 80 /\ entropy >= 50 * 1000000 /\ common_patterns = <<>>
    THEN <<"Very Strong", GREEN>>
    ELSE IF percentage > 60 /\ entropy >= 35 * 1000000
    THEN <<"Strong", BLUE>>
    ELSE IF percentage > 40 /\ entropy >= 25 * 1000000
    THEN <<"Medium", YELLOW>>
    ELSE IF percentage > 20
    THEN <<"Weak", RED>>
    ELSE <<"Very Weak", RED>>

\* the if/elif chain without  and not common_patterns  in its first test
strength_level_ignoring_warnings(percentage, entropy, common_patterns) ==
    IF percentage >= 80 /\ entropy >= 50 * 1000000
    THEN <<"Very Strong", GREEN>>
    ELSE IF percentage >= 60 /\ entropy >= 35 * 1000000
    THEN <<"Strong", BLUE>>
    ELSE IF percentage >= 40 /\ entropy >= 25 * 1000000
    THEN <<"Medium", YELLOW>>
    ELSE IF percentage >= 20
    THEN <<"Weak", RED>>
    ELSE <<"Very Weak", RED>>

\* the if/elif chain: (strength, color)
strength_level(percentage, entropy, common_patterns) ==
    IF percentage >= 80 /\ entropy >= 50 * 1000000 /\ common_patterns = <<>>
    THEN <<"Very Strong", GREEN>>
    ELSE IF percentage >= 60 /\ entropy >= 35 * 1000000
    THEN <<"Strong", BLUE>>
    ELSE IF percentage >= 40 /\ entropy >= 25 * 1000000
    THEN <<"Medium", YELLOW>>
    ELSE IF percentage >= 20
    THEN <<"Weak", RED>>
    ELSE <<"Very Weak", RED>>

\* the 'password' entry holding the password itself
masked_plain(pw) == pw

\* 'password': '*' * len(password)
masked(pw) == repeat_star(Len(pw))

evaluate_strength(self, pw) ==
    LET criteria_results == check_criteria(self, pw)
        entropy == calculate_entropy(self, pw)
        common_patterns == check_common_patterns(self, pw)
        score == score_of(self, criteria_results, 1)
        max_score == max_score_of(self, 1)
        percentage == percentage_of(score, max_score)
        level == strength_level(percentage, entropy, common_patterns)
    IN [password |-> masked(pw),
        strength |-> level[1],
        color |-> level[2],
        score |-> score,
        max_score |-> max_score,
        percentage |-> percentage,
        entropy |-> round2(entropy),
        criteria |-> criteria_results,
        common_patterns |-> common_patterns]

\* evaluate_strength raising the weight of every rule the password passed
evaluate_strength_self_reweighting(self, pw) ==
    [i \in 1..Len(self) |->
        [self[i] EXCEPT !.weight = IF re_search(self[i].regex, pw) THEN @ + 1 ELSE @]]

\* the checker's attributes after evaluate_strength returns: the method and
\* the three it calls assign to no attribute of self
evaluate_strength_self(self, pw) == self

(***************************************************************************)
(* Inputs.                                                                 *)
(***************************************************************************)
Pieces ==
    { s_qwerty,
      <<80, 97, 115, 115, 87, 111, 114, 100>>,   \* PassWord
      <<65, 68, 77, 73, 78>>,                    \* ADMIN
      s_asdfgh,
      <<97, 97, 97>>,                            \* aaa
      <<65, 98, 49, 33>>,                        \* Ab1!
      <<33, 64, 35, 36, 37>>,                    \* !@#$%
      <<65, 49>>,                                \* A1
      <<10>>,                                    \* line feed
      <<32>>,                                    \* space
      <<201>>,                                   \* LATIN CAPITAL LETTER E WITH ACUTE
      <<1635>> }                                 \* ARABIC-INDIC DIGIT THREE

RECURSIVE join(_, _)
join(f, i) == IF i > Len(f) THEN <<>> ELSE f[i] \o join(f, i + 1)

Passwords == UNION { { join(f, 1) : f \in [1..k -> Pieces] } : k \in 0..MaxPieces }

None == [none |-> TRUE]

(***************************************************************************)
(* The core called once on a freshly constructed checker.                  *)
(***************************************************************************)
Init ==
    /\ criteria = PasswordStrengthChecker_init
    /\ password \in Passwords
    /\ pc = "ready"
    /\ ret = None
    /\ args = None
    /\ pending = <<>>
    /\ reads = <<>>
    /\ evals = <<>>
    /\ printed = 0

CheckCriteria ==
    /\ pc = "ready"
    /\ ret' = check_criteria(criteria, password)
    /\ pc' = "check_criteria"
    /\ UNCHANGED <<criteria, args, password, pending, reads, evals, printed>>

CalculateEntropy ==
    /\ pc = "ready"
    /\ ret' = calculate_entropy(criteria, password)
    /\ pc' = "calculate_entropy"
    /\ UNCHANGED <<criteria, args, password, pending, reads, evals, printed>>

CheckCommonPatterns ==
    /\ pc = "ready"
    /\ ret' = check_common_patterns(criteria, password)
    /\ pc' = "check_common_patterns"
    /\ UNCHANGED <<criteria, args, password, pending, reads, evals, printed>>

EvaluateStrength ==
    /\ pc = "ready"
    /\ ret' = evaluate_strength(criteria, password)
    /\ criteria' = evaluate_strength_self(criteria, password)
    /\ pc' = "evaluate_strength"
    /\ UNCHANGED <<args, password, pending, reads, evals, printed>>

Next ==
    \/ CheckCriteria
    \/ CalculateEntropy
    \/ CheckCommonPatterns
    \/ EvaluateStrength

Spec == Init /\ [][Next]_vars

(***************************************************************************)
(* main(): the command line around the core.                               *)
(***************************************************************************)
\* what input() and the lines of a password file can deliver (a line holds
\* no line break)
RawLines ==
    { <<>>,
      <<32, 32>>,                                       \* two spaces
      s_quit,
      <<32, 81, 117, 105, 116, 32>>,                    \* " Quit "
      s_qwerty,
      <<32, 104, 117, 110, 116, 101, 114, 50, 9>>,      \* " hunter2\t"
      <<65, 98, 49, 33, 65, 98, 49, 33>> }              \* Ab1!Ab1!

Files == UNION { [1..k -> RawLines] : k \in 0..MaxReads }

\* passwords = [line.strip() for line in f if line.strip()]
RECURSIVE read_passwords(_, _)
read_passwords(lines, i) ==
    IF i > Len(lines) THEN <<>>
    ELSE (IF strip(lines[i]) # <<>> THEN <<strip(lines[i])>> ELSE <<>>)
         \o read_passwords(lines, i + 1)

\* the quit test without .lower()
is_quit_exact(pw) == pw = s_quit

\* password.lower() == 'quit'
is_quit(pw) == lower(pw) = s_quit

\* truth value of an optional string argument
truthy(a) == a # None /\ a # <<>>

InitCLI ==
    /\ criteria = PasswordStrengthChecker_init
    /\ args \in [file : {None, [found |-> FALSE]} \cup { [found |-> TRUE, lines |-> f] : f \in Files },
                 password : {None, <<>>, s_qwerty}]
    /\ password = <<>>
    /\ pc = "main"
    /\ ret = None
    /\ pending = <<>>
    /\ reads = <<>>
    /\ evals = <<>>
    /\ printed = 0

\* with open(args.file) as f: passwords = [...]
OpenFile ==
    /\ pc = "main"
    /\ args.file # None
    /\ args.file.found
    /\ pending' = read_passwords(args.file.lines, 1)
    /\ pc' = "file_loop"
    /\ UNCHANGED <<criteria, args, password, ret, reads, evals, printed>>

\* except FileNotFoundError
FileNotFound ==
    /\ pc = "main"
    /\ args.file # None
    /\ ~args.file.found
    /\ printed' = printed + 1
    /\ pc' = "done"
    /\ UNCHANGED <<criteria, args, password, ret, pending, reads, evals>>

\* one turn of  for password in passwords
FileEvaluate ==
    /\ pc = "file_loop"
    /\ pending # <<>>
    /\ password' = Head(pending)
    /\ pending' = Tail(pending)
    /\ ret' = evaluate_strength(criteria, Head(pending))
    /\ criteria' = evaluate_strength_self(criteria, Head(pending))
    /\ evals' = Append(evals, Head(pending))
    /\ printed' = printed + 2
    /\ UNCHANGED <<args, pc, reads>>

FileDone ==
    /\ pc = "file_loop"
    /\ pending = <<>>
    /\ pc' = "done"
    /\ UNCHANGED <<criteria, args, password, ret, pending, reads, evals, printed>>

\* elif args.password
ArgEvaluate ==
    /\ pc = "main"
    /\ args.file = None
    /\ truthy(args.password)
    /\ password' = args.password
    /\ ret' = evaluate_strength(criteria, args.password)
    /\ criteria' = evaluate_strength_self(criteria, args.password)
    /\ evals' = Append(evals, args.password)
    /\ printed' = printed + 1
    /\ pc' = "done"
    /\ UNCHANGED <<args, pending, reads>>

\* else: the two banner lines, then the loop
InteractiveStart ==
    /\ pc = "main"
    /\ args.file = None
    /\ ~truthy(args.password)
    /\ printed' = printed + 2
    /\ pc' = "input"
    /\ UNCHANGED <<criteria, args, password, ret, pending, reads, evals>>

\* input() delivers a line that says quit: break
ReadQuit ==
    /\ pc = "input"
    /\ Len(reads) < MaxReads
    /\ \E raw \in RawLines :
        /\ is_quit(strip(raw))
        /\ reads' = Append(reads, raw)
        /\ password' = strip(raw)
    /\ pc' = "done"
    /\ UNCHANGED <<criteria, args, ret, pending, evals, printed>>

\* input() delivers a password: evaluate and print it
ReadPassword ==
    /\ pc = "input"
    /\ Len(reads) < MaxReads
    /\ \E raw \in RawLines :
        /\ ~is_quit(strip(raw))
        /\ strip(raw) # <<>>
        /\ reads' = Append(reads, raw)
        /\ password' = strip(raw)
        /\ ret' = evaluate_strength(criteria, strip(raw))
        /\ criteria' = evaluate_strength_self(criteria, strip(raw))
        /\ evals' = Append(evals, strip(raw))
    /\ printed' = printed + 1
    /\ UNCHANGED <<args, pc, pending>>

\* input() delivers nothing but whitespace: next turn
ReadBlank ==
    /\ pc = "input"
    /\ Len(reads) < MaxReads
    /\ \E raw \in RawLines :
        /\ ~is_quit(strip(raw))
        /\ strip(raw) = <<>>
        /\ reads' = Append(reads, raw)
        /\ password' = strip(raw)
    /\ UNCHANGED <<criteria, args, pc, ret, pending, evals, printed>>

\* except KeyboardInterrupt: Goodbye
Interrupt ==
    /\ pc = "input"
    /\ printed' = printed + 1
    /\ pc' = "interrupted"
    /\ UNCHANGED <<criteria, args, password, ret, pending, reads, evals>>

\* input() at end of input raises EOFError, which nothing catches
EndOfInput ==
    /\ pc = "input"
    /\ pc' = "crashed"
    /\ UNCHANGED <<criteria, args, password, ret, pending, reads, evals, printed>>

NextCLI ==
    \/ OpenFile
    \/ FileNotFound
    \/ FileEvaluate
    \/ FileDone
    \/ ArgEvaluate
    \/ InteractiveStart
    \/ ReadQuit
    \/ ReadPassword
    \/ ReadBlank
    \/ Interrupt
    \/ EndOfInput

SpecCLI == InitCLI /\ [][NextCLI]_vars

(***************************************************************************)
(* Properties.                                                             *)
(***************************************************************************)
\* n bits in micro-bits
Bits(n) == n * 1000000

\* the entropy evaluate_strength compares, before rounding
UnroundedEntropy == calculate_entropy(criteria, password)

AllPassed(results) == \A i \in 1..Len(results) : results[i].passed

PassedCount(results) == Cardinality({i \in 1..Len(results) : results[i].passed})

\* C1: evaluate_strength labels by the ordered first-match table over the
\* percentage P, the unrounded entropy E and the warnings W: Very Strong iff
\* P>=80, E>=50 and W empty; else Strong iff P>=60 and E>=35; else Medium iff
\* P>=40 and E>=25; else Weak iff P>=20; else Very Weak.  The reported entropy
\* is E rounded to 2 decimals.
C1_FirstMatchTable ==
    pc = "evaluate_strength" =>
        LET P == ret.percentage
            E == UnroundedEntropy
            W == ret.common_patterns
            row1 == P >= 80 /\ E >= Bits(50) /\ W = <<>>
            row2 == P >= 60 /\ E >= Bits(35)
            row3 == P >= 40 /\ E >= Bits(25)
            row4 == P >= 20
        IN /\ (ret.strength = "Very Strong") <=> row1
           /\ (ret.strength = "Strong") <=> (~row1 /\ row2)
           /\ (ret.strength = "Medium") <=> (~row1 /\ ~row2 /\ row3)
           /\ (ret.strength = "Weak") <=> (~row1 /\ ~row2 /\ ~row3 /\ row4)
           /\ (ret.strength = "Very Weak") <=> (~row1 /\ ~row2 /\ ~row3 /\ ~row4)
           /\ ret.entropy = round2(E)

\* a password meeting the percentage and entropy bounds of the first row
\* falls through to Strong because it has a warning
C1_Witness ==
    /\ pc = "evaluate_strength"
    /\ ret.percentage = 80
    /\ UnroundedEntropy >= Bits(50)
    /\ ret.common_patterns # <<>>
    /\ ret.strength = "Strong"

\* position of a warning's argument in the list it was taken from
WarningIndex(w) ==
    IF w.msg = MSG_SEQUENCE THEN CHOOSE k \in 1..Len(sequences) : sequences[k] = w.arg
    ELSE IF w.msg = MSG_KEYBOARD
    THEN CHOOSE k \in 1..Len(keyboard_patterns) : keyboard_patterns[k] = w.arg
    ELSE 0

\* ws is ordered by group (rank) and, inside a group, by list position
OrderedBy(ws, rank) ==
    \A i, j \in 1..Len(ws) :
        i < j =>
            \/ rank[ws[i].msg] < rank[ws[j].msg]
            \/ /\ rank[ws[i].msg] = rank[ws[j].msg]
               /\ WarningIndex(ws[i]) < WarningIndex(ws[j])

Rank(a, b, c) ==
    [m \in {MSG_SEQUENCE, MSG_KEYBOARD, MSG_REPEATED} |->
        IF m = MSG_SEQUENCE THEN a ELSE IF m = MSG_KEYBOARD THEN b ELSE c]

\* C2 as stated: the warnings are ordered weak sequences (list order), then
\* keyboard patterns (list order), then the repeated-characters warning last.
C2_RepeatedLast ==
    pc = "check_common_patterns" => OrderedBy(ret, Rank(1, 2, 3))

\* C2 as amended: the warnings are ordered weak sequences (list order), then
\* the repeated-characters warning, then keyboard patterns (list order).
C2_RepeatedBeforeKeyboard ==
    pc = "check_common_patterns" => OrderedBy(ret, Rank(1, 3, 2))

\* a password that draws a warning of each of the three groups
C2_Witness ==
    /\ pc = "check_common_patterns"
    /\ \E i, j, k \in 1..Len(ret) :
        /\ i < j /\ j < k
        /\ ret[i].msg = MSG_SEQUENCE
        /\ ret[j].msg = MSG_REPEATED
        /\ ret[k].msg = MSG_KEYBOARD

\* C3: the length criterion passes iff the password has at least 8 characters,
\* whatever the characters; the empty string fails all five criteria.
C3_LengthCountsEveryCharacter ==
    pc = "check_criteria" =>
        /\ ret[1].name = "length"
        /\ ret[1].passed <=> Len(password) >= 8
        /\ password = <<>> => \A i \in 1..Len(ret) : ~ret[i].passed

\* C4: the result has the five criteria keys in the fixed order, score = 2 per
\* passed criterion, max_score = 10, percentage = score / max_score * 100,
\* one of 0, 20, 40, 60, 80, 100.
C4_ScoreFields ==
    pc = "evaluate_strength" =>
        /\ [i \in 1..Len(ret.criteria) |-> ret.criteria[i].name]
               = <<"length", "uppercase", "lowercase", "digits", "special">>
        /\ ret.score = 2 * PassedCount(ret.criteria)
        /\ ret.max_score = 10
        /\ ret.percentage * ret.max_score = ret.score * 100
        /\ ret.percentage \in {0, 20, 40, 60, 80, 100}

\* a result where some criteria passed and some failed
C4_Witness ==
    /\ pc = "evaluate_strength"
    /\ ret.score = 6
    /\ ret.percentage = 60
    /\ ~ret.criteria[1].passed

Occurs(pw, class) == \E i \in 1..Len(pw) : pw[i] \in class

\* sum of the sizes of the classes present, each once
AlphabetSize(pw) ==
    (IF Occurs(pw, 97..122) THEN 26 ELSE 0)
    + (IF Occurs(pw, 65..90) THEN 26 ELSE 0)
    + (IF Occurs(pw, UnicodeDigits) THEN 10 ELSE 0)
    + (IF Occurs(pw, SpecialChars) THEN 32 ELSE 0)

\* C5: the entropy is 0 for the empty password and when no class is present,
\* and otherwise length * log2(alphabet size), the alphabet size being the sum
\* over the classes present (lowercase 26, uppercase 26, digits 10, special
\* 32), each once; other characters add to the length only.
C5_EntropyFormula ==
    pc = "calculate_entropy" =>
        ret = IF password = <<>> \/ AlphabetSize(password) = 0
              THEN 0
              ELSE Len(password) * log2_micro(AlphabetSize(password))

\* two classes present, one of them more than once, and a character outside
\* all four classes
C5_Witness ==
    /\ pc = "calculate_entropy"
    /\ AlphabetSize(password) = 36
    /\ Cardinality({i \in 1..Len(password) : password[i] \in 65..90}) >= 2
    /\ \E i \in 1..Len(password) :
        password[i] \notin (97..122) \cup (65..90) \cup UnicodeDigits \cup SpecialChars
    /\ ret = Len(password) * log2_micro(36)

SameIgnoringCase(a, b) ==
    \/ a = b
    \/ a \in 65..90 /\ b = a + 32
    \/ b \in 65..90 /\ a = b + 32

OccursIgnoringCase(pw, sub) ==
    \E i \in 0..(Len(pw) - Len(sub)) :
        \A j \in 1..Len(sub) : SameIgnoringCase(pw[i + j], sub[j])

HasRunOfThree(pw) ==
    \E i \in 1..(Len(pw) - 2) : pw[i + 1] = pw[i] /\ pw[i + 2] = pw[i]

Count(ws, w) == Cardinality({i \in 1..Len(ws) : ws[i] = w})

\* C6: exactly one warning per weak sequence and per keyboard pattern that
\* occurs in the password ignoring case, exactly one repeated-characters
\* warning iff the password has a run of 3 or more identical consecutive
\* characters, and nothing else.
C6_ExactWarnings ==
    pc = "check_common_patterns" =>
        /\ \A k \in 1..Len(sequences) :
            Count(ret, [msg |-> MSG_SEQUENCE, arg |-> sequences[k]])
                = IF OccursIgnoringCase(password, sequences[k]) THEN 1 ELSE 0
        /\ \A k \in 1..Len(keyboard_patterns) :
            Count(ret, [msg |-> MSG_KEYBOARD, arg |-> keyboard_patterns[k]])
                = IF OccursIgnoringCase(password, keyboard_patterns[k]) THEN 1 ELSE 0
        /\ Count(ret, [msg |-> MSG_REPEATED, arg |-> <<>>])
                = IF HasRunOfThree(password) THEN 1 ELSE 0
        /\ \A i \in 1..Len(ret) :
            \/ ret[i].msg = MSG_SEQUENCE /\ \E k \in 1..Len(sequences) : ret[i].arg = sequences[k]
            \/ ret[i].msg = MSG_KEYBOARD
               /\ \E k \in 1..Len(keyboard_patterns) : ret[i].arg = keyboard_patterns[k]
            \/ ret[i] = [msg |-> MSG_REPEATED, arg |-> <<>>]

\* C7: whatever was evaluated before on the same checker, the criteria table
\* is the one __init__ built and the last result is the result a fresh checker
\* gives for the same password.
C7_NoCrossCallState ==
    /\ criteria = PasswordStrengthChecker_init
    /\ evals # <<>> => ret = evaluate_strength(PasswordStrengthChecker_init, evals[Len(evals)])

\* the same password evaluated first and third, with another in between
C7_Witness ==
    /\ Len(evals) = 3
    /\ evals[3] = evals[1]
    /\ evals[2] # evals[1]
    /\ ret = evaluate_strength(PasswordStrengthChecker_init, evals[1])

ColorOf(strength) ==
    CASE strength = "Very Strong" -> GREEN
      [] strength = "Strong" -> BLUE
      [] strength = "Medium" -> YELLOW
      [] strength = "Weak" -> RED
      [] strength = "Very Weak" -> RED

\* C8 as stated: the result record holds the EvaluationResult fields only: no
\* color code and no masked password.
C8_NoColorNoMask ==
    pc = "evaluate_strength" =>
        DOMAIN ret = {"criteria", "score", "max_score", "percentage", "entropy",
                      "common_patterns", "strength"}

\* C8 as amended: the result record holds the EvaluationResult fields and also
\* the color code of its label and the password masked as one '*' per
\* character.
C8_ColorAndMaskInRecord ==
    pc = "evaluate_strength" =>
        /\ DOMAIN ret = {"criteria", "score", "max_score", "percentage", "entropy",
                         "common_patterns", "strength", "color", "password"}
        /\ ret.color = ColorOf(ret.strength)
        /\ Len(ret.password) = Len(password)
        /\ \A i \in 1..Len(ret.password) : ret.password[i] = 42

\* a Very Strong password of 8 characters, none of them '*'
C8_Witness ==
    /\ pc = "evaluate_strength"
    /\ ret.strength = "Very Strong"
    /\ ret.color = GREEN
    /\ Len(ret.password) = 8
    /\ \A i \in 1..Len(password) : password[i] # 42

\* the interactive branch of main() was taken
Interactive ==
    /\ args # None
    /\ args.file = None
    /\ ~truthy(args.password)
    /\ pc # "main"

QuitLike(raw) == lower(strip(raw)) = s_quit

\* the stripped inputs from index i on that are neither blank nor a quit
RECURSIVE EvaluatedOf(_, _)
EvaluatedOf(rs, i) ==
    IF i > Len(rs) THEN <<>>
    ELSE (IF strip(rs[i]) # <<>> /\ ~QuitLike(rs[i]) THEN <<strip(rs[i])>> ELSE <<>>)
         \o EvaluatedOf(rs, i + 1)

\* C9 as stated: in interactive mode every input read before the loop ends is
\* evaluated exactly once, in order; the input that ends the loop is not
\* evaluated.
C9_EveryInputEvaluated ==
    Interactive =>
        LET n == IF pc = "done" THEN Len(reads) - 1 ELSE Len(reads)
        IN /\ Len(evals) = n
           /\ \A i \in 1..n : evals[i] = strip(reads[i])

\* C9 as amended: in interactive mode every input read that is neither blank
\* after stripping nor quit (stripped, any case) is evaluated exactly once, in
\* order, as stripped; blank inputs are skipped; the loop ends through an
\* input exactly when that input is quit (stripped, any case), and nothing is
\* read or evaluated after it.
C9_NonBlankInputsEvaluated ==
    Interactive =>
        /\ evals = EvaluatedOf(reads, 1)
        /\ pc = "done" <=> (reads # <<>> /\ QuitLike(reads[Len(reads)]))
        /\ \A i \in 1..(Len(reads) - 1) : ~QuitLike(reads[i])

\* a blank input, then a password, then a quit that is not the literal quit
C9_Witness ==
    /\ Interactive
    /\ pc = "done"
    /\ Len(reads) = 3
    /\ strip(reads[1]) = <<>>
    /\ evals = <<strip(reads[2])>>
    /\ reads[2] # strip(reads[2])
    /\ reads[3] # s_quit

\* C10: when all five criteria pass, the entropy is at least 8 * log2(94) and
\* the label is Very Strong if there is no warning and Strong otherwise.
C10_AllCriteriaNeverBelowStrong ==
    (pc = "evaluate_strength" /\ AllPassed(ret.criteria)) =>
        /\ UnroundedEntropy >= 8 * log2_micro(94)
        /\ ret.strength = IF ret.common_patterns = <<>> THEN "Very Strong" ELSE "Strong"

\* all five criteria pass and a warning keeps the label at Strong
C10_Witness ==
    /\ pc = "evaluate_strength"
    /\ AllPassed(ret.criteria)
    /\ ret.common_patterns # <<>>
    /\ ret.strength = "Strong"

====
